---------------------------- MODULE Spec2Model ----------------------------
(***************************************************************************)
(* A model of the OpenAPI generator of zod-to-openapi:                     *)
(*   src/src/openapi-generator.ts  (class OpenAPIGenerator)                *)
(*   src/unnamed/part_001          (class OpenApiGeneratorV30Specifics)    *)
(*                                                                         *)
(* A zod schema is a record with a kind, its _def.openapi metadata and its *)
(* structural children.  An OpenAPI fragment is a function from key names  *)
(* to values; a key whose value is undefined is left out of the function,  *)
(* which is what omitBy(..., isUndefined) and JSON equality make of it.    *)
(* The generator object (`this`) is a record of its three registries; the  *)
(* private methods take it and give back [res, this, threw].               *)
(***************************************************************************)
EXTENDS Integers, Sequences, FiniteSets

VARIABLES
    definitions,   \* constructor argument: the list of OpenAPIDefinitions
    config,        \* constructor argument: TRUE iff a config object was given
    schemaRefs,    \* this.schemaRefs
    paramRefs,     \* this.paramRefs
    pathRefs,      \* this.pathRefs
    call,          \* the public method now running: "none", "docs", "components"
    idx,           \* forEach position: index of the next definition to process
    ret,           \* what the last generateSingle returned (NoValue if none)
    outcome,       \* how the last finished call ended: "none", "returned", "thrown"
    results,       \* one entry per finished call: [method, threw, doc], the
                   \* doc being the returned document's content at return
    ncalls,        \* how many public calls were started
    steps,         \* the running (or last) call's forEach steps: [i, threw]
    before,        \* `this` as it was before the last generateSingle
    writes,        \* the schemaRefs assignments of the last generateSingle, in order
    routeLog,      \* every routeDoc built so far, in order: [path, method, doc]
    checks,        \* input of getNumberChecks (range-check specification)
    numberResult,  \* what getNumberChecks returned for `checks`
    node,          \* input of the type mapper (mapper specification)
    mapped,        \* what generateSingleSchema did with `node`:
                   \* [res, threw, saveIfNew], or NoValue before the call
    alternatives   \* mapNullableOfArray applied to the mapped anyOf list

vars == <<definitions, config, schemaRefs, paramRefs, pathRefs, call, idx, ret, outcome,
          results, ncalls, steps, before, writes, routeLog, checks, numberResult, node,
          mapped, alternatives>>

-----------------------------------------------------------------------------
(* Values *)

\* JavaScript's undefined, where a string is expected.
Undefined == "<undefined>"

\* The object { [key]: value }.
key := value == [k \in {key} |-> value]

\* The object { ...a, ...b }: the keys of b win.
a ++ b ==
    [k \in DOMAIN a \cup DOMAIN b |-> IF k \in DOMAIN b THEN b[k] ELSE a[k]]

\* !name, for a name that is a string or undefined
Falsy(name) == name = Undefined \/ name = ""

\* The object {} .
Empty == [k \in {} |-> k]

\* "No value here" for the variables that hold a fragment.
NoValue == ("<none>" := TRUE)

\* zodSchema._def.openapi when .openapi() was never called on the schema.
NoMeta == [undefined |-> TRUE]

\* { [key]: value }, left out when `present` is false (value undefined).
Field(key, value, present) == IF present THEN key := value ELSE Empty

\* { ...a, ...b }
Spread(a, b) == a ++ b

\* Keys every {} inherits from Object.prototype: obj[key] is truthy for them
\* although obj has no such own key.
ObjectPrototypeKeys ==
    {"constructor", "toString", "valueOf", "hasOwnProperty", "__proto__"}

\* The truthiness of `registry[key]`: registry values are objects, so an own
\* key is truthy; an inherited key is a truthy function or object.
Truthy(registry, key) == key \in DOMAIN registry \/ key \in ObjectPrototypeKeys

\* registry[key] = value
Put(registry, key, value) == registry ++ (key := value)

-----------------------------------------------------------------------------
(* zod schemas *)

Meta(name, type, description) ==
    [name |-> name, type |-> type, description |-> description]
Named(name) == Meta(name, Undefined, Undefined)

ZodString(openapi) == [kind |-> "ZodString", openapi |-> openapi]
ZodBoolean(openapi) == [kind |-> "ZodBoolean", openapi |-> openapi]
ZodNull(openapi) == [kind |-> "ZodNull", openapi |-> openapi]
\* a number with its ordered range checks [kind, value, inclusive]
ZodNumber(chks, openapi) ==
    [kind |-> "ZodNumber", checks |-> chks, openapi |-> openapi]
ZodLiteral(value, typeof, openapi) ==
    [kind |-> "ZodLiteral", value |-> value, typeof |-> typeof, openapi |-> openapi]
ZodEnum(values, openapi) ==
    [kind |-> "ZodEnum", values |-> values, openapi |-> openapi]
\* values: the sequence of Object.values of the native enum object
ZodNativeEnum(values, openapi) ==
    [kind |-> "ZodNativeEnum", values |-> values, openapi |-> openapi]
\* shape: the sequence of <<key, schema>> in Object.keys order
ZodObject(shape, unknownKeys, openapi) ==
    [kind |-> "ZodObject", shape |-> shape, unknownKeys |-> unknownKeys,
     openapi |-> openapi]
\* minLength / maxLength: << >> for null, <<n>> for {value: n}
ZodArray(type, minLength, maxLength, openapi) ==
    [kind |-> "ZodArray", type |-> type, minLength |-> minLength,
     maxLength |-> maxLength, openapi |-> openapi]
ZodUnion(options, openapi) ==
    [kind |-> "ZodUnion", options |-> options, openapi |-> openapi]
ZodIntersection(left, right, openapi) ==
    [kind |-> "ZodIntersection", left |-> left, right |-> right, openapi |-> openapi]
ZodOptional(inner, openapi) ==
    [kind |-> "ZodOptional", inner |-> inner, openapi |-> openapi]
ZodNullable(inner, openapi) ==
    [kind |-> "ZodNullable", inner |-> inner, openapi |-> openapi]
\* a zod type the generator has no branch for (z.date(), z.any(), ...);
\* acceptsUndefined / acceptsNull: what its parser does with undefined / null
ZodOther(acceptsUndefined, acceptsNull, openapi) ==
    [kind |-> "ZodOther", acceptsUndefined |-> acceptsUndefined,
     acceptsNull |-> acceptsNull, openapi |-> openapi]

RECURSIVE isOptional(_)
\* ZodType.isOptional(): whether the schema's parser accepts undefined.
isOptional(schema) ==
    CASE schema.kind = "ZodOptional" -> TRUE
      [] schema.kind = "ZodNullable" -> isOptional(schema.inner)
      [] schema.kind = "ZodUnion" ->
            \E i \in DOMAIN schema.options : isOptional(schema.options[i])
      [] schema.kind = "ZodIntersection" ->
            isOptional(schema.left) /\ isOptional(schema.right)
      [] schema.kind = "ZodOther" -> schema.acceptsUndefined
      [] OTHER -> FALSE

RECURSIVE isNullable(_)
\* ZodType.isNullable(): whether the schema's parser accepts null.
isNullable(schema) ==
    CASE schema.kind = "ZodNullable" -> TRUE
      [] schema.kind = "ZodNull" -> TRUE
      [] schema.kind = "ZodOptional" -> isNullable(schema.inner)
      [] schema.kind = "ZodUnion" ->
            \E i \in DOMAIN schema.options : isNullable(schema.options[i])
      [] schema.kind = "ZodIntersection" ->
            isNullable(schema.left) /\ isNullable(schema.right)
      [] schema.kind = "ZodOther" -> schema.acceptsNull
      [] OTHER -> FALSE

\* The values of the checks of one kind ("min" or "max") of a ZodNumber.
boundsOf(chks, kind) ==
    {chks[i].value : i \in {j \in DOMAIN chks : chks[j].kind = kind}}

\* ZodNumber.minValue: the largest min check (null when there is none;
\* callers test boundsOf(chks, "min") # {} first).
minValue(chks) ==
    CHOOSE v \in boundsOf(chks, "min") : \A w \in boundsOf(chks, "min") : w <= v

\* ZodNumber.maxValue: the smallest max check.
maxValue(chks) ==
    CHOOSE v \in boundsOf(chks, "max") : \A w \in boundsOf(chks, "max") : v <= w

-----------------------------------------------------------------------------
(* OpenApiGeneratorV30Specifics (src/unnamed/part_001) *)

nullType == ("nullable" := TRUE)

mapNullableOfArray(objects, nullable) ==
    IF nullable THEN Append(objects, nullType) ELSE objects

\* `type` is Undefined when the caller passes undefined.
mapNullableType(type, nullable) ==
    Spread(Field("type", type, type # Undefined),
           IF nullable THEN nullType ELSE Empty)

\* Number(check.value): check.value is a number or a bigint, modelled
\* [bigint |-> BOOLEAN, n |-> Int]; either way the result is the number n.
Number(value) == value.n

\* The object one check maps to (the callback of checks.map).
numberCheck(check) ==
    CASE check.kind = "min" ->
            IF check.inclusive
            THEN ("minimum" := Number(check.value))
            ELSE ("minimum" := Number(check.value)) ++ ("exclusiveMinimum" := TRUE)
      [] check.kind = "max" ->
            IF check.inclusive
            THEN ("maximum" := Number(check.value))
            ELSE ("maximum" := Number(check.value)) ++ ("exclusiveMaximum" := TRUE)
      [] OTHER -> Empty

RECURSIVE assignAll(_, _)
\* Object.assign(target, ...sources): each source in turn overwrites its keys.
assignAll(target, sources) ==
    IF sources = << >> THEN target
    ELSE assignAll(Spread(target, Head(sources)), Tail(sources))

getNumberChecks(chks) ==
    assignAll(Empty, [i \in DOMAIN chks |-> numberCheck(chks[i])])

-----------------------------------------------------------------------------
(* OpenAPIGenerator (src/src/openapi-generator.ts): private methods *)

\* What a private method gives back: its return value, the generator after
\* it, and whether it threw (then res is NoValue).
Returned(res, this) == [res |-> res, this |-> this, threw |-> FALSE]
Thrown(this) == [res |-> NoValue, this |-> this, threw |-> TRUE]

SchemaRef(name) == ("$ref" := <<"#/components/schemas/", name>>)
ParameterRef(name) == ("$ref" := <<"#/components/parameters/", name>>)

RECURSIVE unwrapOptional(_)
unwrapOptional(schema) ==
    IF schema.kind \in {"ZodOptional", "ZodNullable"}
    THEN unwrapOptional(schema.inner)
    ELSE schema

getMetadata(zodSchema) ==
    IF zodSchema.openapi # NoMeta
    THEN zodSchema.openapi
    ELSE unwrapOptional(zodSchema).openapi

\* metadata?.name, metadata?.type, metadata?.description
metaName(metadata) == IF metadata = NoMeta THEN Undefined ELSE metadata.name
metaType(metadata) == IF metadata = NoMeta THEN Undefined ELSE metadata.type
metaDescription(metadata) ==
    IF metadata = NoMeta THEN Undefined ELSE metadata.description

\* omitBy(omit(metadata, 'name'), isNil)
buildMetadata(metadata) ==
    Field("type", metadata.type, metadata.type # Undefined)
    ++ Field("description", metadata.description,
             metadata.description # Undefined)

RECURSIVE flatMapSeq(_)
\* the concatenation of a sequence of sequences
flatMapSeq(seqs) ==
    IF seqs = << >> THEN << >> ELSE Head(seqs) \o flatMapSeq(Tail(seqs))

\* flattenUnionTypes without the recursion into the options: only the
\* outermost union is opened.
flattenUnionTypesOneLevel(schema) ==
    IF schema.kind # "ZodUnion" THEN <<schema>> ELSE schema.options

RECURSIVE flattenUnionTypes(_)
flattenUnionTypes(schema) ==
    IF schema.kind # "ZodUnion" THEN <<schema>>
    ELSE flatMapSeq([i \in DOMAIN schema.options |->
                        flattenUnionTypes(schema.options[i])])

RECURSIVE flattenIntersectionTypes(_)
flattenIntersectionTypes(schema) ==
    IF schema.kind # "ZodIntersection" THEN <<schema>>
    ELSE flattenIntersectionTypes(schema.left)
         \o flattenIntersectionTypes(schema.right)

RECURSIVE generateSingleSchema(_, _, _, _)
RECURSIVE toOpenAPISchema(_, _, _, _, _)
RECURSIVE mapSchemas(_, _, _)

\* [first, ...rest], unless mapping the rest threw
prepend(first, rest) ==
    IF rest.threw THEN rest ELSE Returned(<<first>> \o rest.res, rest.this)

\* The map after its first element `first` (the outcome of mapping it): the
\* rest is mapped with the registry the first call left; a throw ends the map.
mapRest(first, schemas, saveIfNew) ==
    IF first.threw THEN first
    ELSE prepend(first.res, mapSchemas(schemas, saveIfNew, first.this))

\* schemas.map((schema) => this.generateSingleSchema(schema, saveIfNew)),
\* left to right
mapSchemas(schemas, saveIfNew, this) ==
    IF schemas = << >> THEN Returned(<< >>, this)
    ELSE mapRest(generateSingleSchema(Head(schemas), saveIfNew, TRUE, this),
                 Tail(schemas), saveIfNew)

\* The keys and the property schemas of a shape, in Object.keys order.
shapeKeys(shape) == [i \in DOMAIN shape |-> shape[i][1]]
shapeTypes(shape) == [i \in DOMAIN shape |-> shape[i][2]]

\* The object with the given keys and values.
objectOf(keys, values) ==
    [k \in {keys[i] : i \in DOMAIN keys} |->
        values[CHOOSE i \in DOMAIN keys : keys[i] = k]]

\* requiredKeys filtering on isNullable as well as on isOptional
requiredKeysNonNullable(shape) ==
    shapeKeys(SelectSeq(shape, LAMBDA entry :
                  ~isOptional(entry[2]) /\ ~isNullable(entry[2])))

\* Object.entries(propTypes).filter(([_key, type]) => !type.isOptional())
\*                          .map(([key, _type]) => key)
requiredKeys(shape) ==
    shapeKeys(SelectSeq(shape, LAMBDA entry : ~isOptional(entry[2])))

nullableField(nullable) == Field("nullable", TRUE, nullable)

\* the ZodObject branch, `properties` being the mapped property schemas
objectSchema(zodSchema, nullable, properties) ==
    IF properties.threw THEN properties
    ELSE Returned(
           ("type" := "object")
           ++ ("properties" :=
                 objectOf(shapeKeys(zodSchema.shape), properties.res))
           ++ ("required" := requiredKeys(zodSchema.shape))
           ++ Field("additionalProperties", TRUE,
                    zodSchema.unknownKeys = "passthrough")
           ++ nullableField(nullable),
           properties.this)

\* the ZodArray branch, `items` being the mapped item type
arraySchema(zodSchema, items) ==
    IF items.threw THEN items
    ELSE Returned(
           ("type" := "array") ++ ("items" := items.res)
           ++ Field("minItems", Head(zodSchema.minLength),
                    zodSchema.minLength # << >>)
           ++ Field("maxItems", Head(zodSchema.maxLength),
                    zodSchema.maxLength # << >>),
           items.this)

\* the ZodUnion branch, `options` being the mapped flattened options
unionSchema(options) ==
    IF options.threw THEN options
    ELSE Returned(("anyOf" := options.res), options.this)

\* the ZodIntersection branch, `subtypes` being the mapped flattened subtypes
intersectionSchema(subtypes) ==
    IF subtypes.threw THEN subtypes
    ELSE Returned(("allOf" := subtypes.res), subtypes.this)

toOpenAPISchema(zodSchema, nullable, hasOpenAPIType, saveIfNew, this) ==
    CASE zodSchema.kind = "ZodNull" -> Returned(("type" := "null"), this)
      [] zodSchema.kind = "ZodString" ->
            Returned(("type" := "string") ++ nullableField(nullable), this)
      [] zodSchema.kind = "ZodNumber" ->
            Returned(("type" := "number")
                     ++ Field("minimum", minValue(zodSchema.checks),
                              boundsOf(zodSchema.checks, "min") # {})
                     ++ Field("maximum", maxValue(zodSchema.checks),
                              boundsOf(zodSchema.checks, "max") # {})
                     ++ nullableField(nullable), this)
      [] zodSchema.kind = "ZodLiteral" ->
            Returned(("type" := zodSchema.typeof) ++ nullableField(nullable)
                     ++ ("enum" := <<zodSchema.value>>), this)
      [] zodSchema.kind = "ZodEnum" ->
            Returned(("type" := "string") ++ nullableField(nullable)
                     ++ ("enum" := zodSchema.values), this)
      [] zodSchema.kind = "ZodNativeEnum" ->
            Returned(("type" := "string") ++ nullableField(nullable)
                     ++ ("enum" := zodSchema.values), this)
      [] zodSchema.kind = "ZodObject" ->
            objectSchema(zodSchema, nullable,
                mapSchemas(shapeTypes(zodSchema.shape), saveIfNew, this))
      [] zodSchema.kind = "ZodBoolean" ->
            Returned(("type" := "boolean") ++ nullableField(nullable), this)
      [] zodSchema.kind = "ZodArray" ->
            arraySchema(zodSchema,
                generateSingleSchema(zodSchema.type, saveIfNew, TRUE, this))
      [] zodSchema.kind = "ZodUnion" ->
            unionSchema(
                mapSchemas(flattenUnionTypes(zodSchema), saveIfNew, this))
      [] zodSchema.kind = "ZodIntersection" ->
            intersectionSchema(
                mapSchemas(flattenIntersectionTypes(zodSchema), saveIfNew, this))
      [] OTHER -> IF hasOpenAPIType THEN Returned(Empty, this) ELSE Thrown(this)

\* generateSingleSchema after toOpenAPISchema gave `base`: the metadata is
\* merged in and, if saveIfNew and the schema is named, the result is stored.
saveSchema(base, metadata, saveIfNew, withMetaData) ==
    IF base.threw THEN base
    ELSE LET result == Spread(base.res,
                              IF withMetaData /\ metadata # NoMeta
                              THEN buildMetadata(metadata) ELSE Empty)
         IN Returned(result,
              IF saveIfNew /\ ~Falsy(metaName(metadata))
              THEN [base.this EXCEPT
                      !.schemaRefs = Put(@, metaName(metadata), result),
                      !.writes = Append(@, <<metaName(metadata), result>>)]
              ELSE base.this)

\* generateSingleSchema consulting the registry only when it is not asked to
\* save: with saveIfNew a registered name is expanded and stored again.
generateSingleSchemaResaving(zodSchema, saveIfNew, withMetaData, this) ==
    LET innerSchema == unwrapOptional(zodSchema)
        metadata == IF zodSchema.openapi # NoMeta
                    THEN zodSchema.openapi ELSE innerSchema.openapi
        schemaName == metaName(metadata)
    IN IF ~saveIfNew /\ ~Falsy(schemaName) /\ Truthy(this.schemaRefs, schemaName)
       THEN Returned(SchemaRef(schemaName), this)
       ELSE saveSchema(toOpenAPISchema(innerSchema, isNullable(zodSchema),
                                       metaType(metadata) # Undefined,
                                       saveIfNew, this),
                       metadata, saveIfNew, withMetaData)

generateSingleSchema(zodSchema, saveIfNew, withMetaData, this) ==
    LET innerSchema == unwrapOptional(zodSchema)
        metadata == IF zodSchema.openapi # NoMeta
                    THEN zodSchema.openapi ELSE innerSchema.openapi
        schemaName == metaName(metadata)
    IN IF ~Falsy(schemaName) /\ Truthy(this.schemaRefs, schemaName)
       THEN Returned(SchemaRef(schemaName), this)
       ELSE saveSchema(toOpenAPISchema(innerSchema, isNullable(zodSchema),
                                       metaType(metadata) # Undefined,
                                       saveIfNew, this),
                       metadata, saveIfNew, withMetaData)

\* a missing optional schema argument (bodySchema, paramsSchema: undefined)
NoSchema == [kind |-> "undefined", openapi |-> NoMeta]

\* generateSingleParameter after generateSingleSchema gave `schema`: the
\* parameter object is built and, if saveIfNew, stored.
saveParameter(schema, location, schemaName, required, metadata, saveIfNew) ==
    IF schema.threw THEN schema
    ELSE LET result ==
               Spread(("in" := location) ++ ("name" := schemaName)
                      ++ ("schema" := schema.res) ++ ("required" := required),
                      IF metadata # NoMeta
                      THEN buildMetadata(metadata) ELSE Empty)
         IN Returned(result,
              IF saveIfNew /\ ~Falsy(schemaName)
              THEN [schema.this EXCEPT !.paramRefs = Put(@, schemaName, result)]
              ELSE schema.this)

generateSingleParameter(zodSchema, location, saveIfNew, externalName, this) ==
    LET metadata == getMetadata(zodSchema)
        schemaName == IF externalName # Undefined
                      THEN externalName ELSE metaName(metadata)
    IN IF Falsy(schemaName) THEN Thrown(this)
       ELSE IF Truthy(this.paramRefs, schemaName)
       THEN Returned(ParameterRef(schemaName), this)
       ELSE saveParameter(generateSingleSchema(zodSchema, FALSE, FALSE, this),
                          location, schemaName,
                          ~isOptional(zodSchema) /\ ~isNullable(zodSchema),
                          metadata, saveIfNew)

\* first.concat(rest), unless building the rest threw
concat(first, rest) ==
    IF rest.threw THEN rest ELSE Returned(first \o rest.res, rest.this)

RECURSIVE mapParameters(_, _, _)

mapRestParameters(first, entries, location) ==
    IF first.threw THEN first
    ELSE concat(<<first.res>>, mapParameters(entries, location, first.this))

\* entries.map(([name, schema]) =>
\*     this.generateSingleParameter(schema, location, false, name)), in order;
\* a throw ends the map
mapParameters(entries, location, this) ==
    IF entries = << >> THEN Returned(<< >>, this)
    ELSE mapRestParameters(
             generateSingleParameter(Head(entries)[2], location, FALSE,
                                     Head(entries)[1], this),
             Tail(entries), location)

\* getBodyDoc after generateSingleSchema gave `schema`
bodyDoc(schema, metadata) ==
    IF schema.threw THEN schema
    ELSE Returned(
           Field("description", metaDescription(metadata),
                 metaDescription(metadata) # Undefined)
           ++ ("required" := TRUE)
           ++ ("content" := ("application/json" := ("schema" := schema.res))),
           schema.this)

getBodyDoc(bodySchema, this) ==
    IF bodySchema = NoSchema THEN Returned(NoValue, this)
    ELSE bodyDoc(generateSingleSchema(bodySchema, FALSE, TRUE, this),
                 getMetadata(bodySchema))

getParamsByLocation(paramsSchema, location, this) ==
    IF paramsSchema = NoSchema THEN Returned(<< >>, this)
    ELSE IF paramsSchema.kind = "ZodObject"
    THEN mapParameters(paramsSchema.shape, location, this)
    ELSE Returned(<< >>, this)

\* a route without a request
NoRequest == [undefined |-> TRUE]

\* compact(request.headers?.map((header) =>
\*     this.generateSingleParameter(header, 'header', false)))
headerParams(request, this) ==
    mapParameters([i \in DOMAIN request.headers |->
                      <<Undefined, request.headers[i]>>],
                  "header", this)

\* getParameters after the query parameters: the header parameters follow
afterQueryParams(queryParams, request) ==
    IF queryParams.threw THEN queryParams
    ELSE concat(queryParams.res, headerParams(request, queryParams.this))

\* getParameters after the path parameters: the query parameters follow
afterPathParams(pathParams, request) ==
    IF pathParams.threw THEN pathParams
    ELSE concat(pathParams.res,
                afterQueryParams(
                    getParamsByLocation(request.query, "query", pathParams.this),
                    request))

getParameters(request, this) ==
    IF request = NoRequest THEN Returned(<< >>, this)
    ELSE afterPathParams(getParamsByLocation(request.params, "path", this),
                         request)

\* the assignment without the spread of the path's earlier entry:
\* this.pathRefs[path] = routeDoc
mergeRouteReplacing(paths, path, routeDoc) == Put(paths, path, routeDoc)

\* this.pathRefs[path] = { ...this.pathRefs[path], ...routeDoc }
mergeRoute(paths, path, routeDoc) ==
    Put(paths, path,
        Spread(IF path \in DOMAIN paths THEN paths[path] ELSE Empty, routeDoc))

\* the routeDoc literal, its three computed parts given
routeDocOf(route, responseSchema, parameters, requestBody) ==
    route.method :=
      ( Field("description", route.description, route.description # Undefined)
        ++ Field("summary", route.summary, route.summary # Undefined)
        ++ ("parameters" := parameters)
        ++ Field("requestBody", requestBody, requestBody # NoValue)
        ++ ("responses" :=
              ("200" :=
                 ( Field("description", metaDescription(route.response.openapi),
                         metaDescription(route.response.openapi) # Undefined)
                   ++ ("content" :=
                         ("application/json" :=
                            ("schema" := responseSchema)))))) )

\* generateSingleRoute after getBodyDoc: routeDoc is merged into pathRefs
afterBody(route, responseSchema, parameters, requestBody) ==
    IF requestBody.threw THEN requestBody
    ELSE Returned(
           routeDocOf(route, responseSchema, parameters, requestBody.res),
           [requestBody.this EXCEPT
              !.pathRefs =
                 mergeRoute(@, route.path,
                            routeDocOf(route, responseSchema, parameters,
                                       requestBody.res))])

\* generateSingleRoute after getParameters
afterParameters(route, responseSchema, parameters) ==
    IF parameters.threw THEN parameters
    ELSE afterBody(route, responseSchema, parameters.res,
                   getBodyDoc(IF route.request = NoRequest
                              THEN NoSchema ELSE route.request.body,
                              parameters.this))

\* generateSingleRoute after the response schema was mapped
afterResponse(route, responseSchema) ==
    IF responseSchema.threw THEN responseSchema
    ELSE afterParameters(route, responseSchema.res,
                         getParameters(route.request, responseSchema.this))

generateSingleRoute(route, this) ==
    afterResponse(route, generateSingleSchema(route.response, FALSE, TRUE, this))

generateSingle(definition, this) ==
    CASE definition.type = "parameter" ->
            generateSingleParameter(definition.schema, definition.location,
                                    TRUE, Undefined, this)
      [] definition.type = "schema" ->
            generateSingleSchema(definition.schema, TRUE, TRUE, this)
      [] definition.type = "route" ->
            generateSingleRoute(definition.route, this)
      [] OTHER -> Thrown(this)

-----------------------------------------------------------------------------
(* The inputs the generator is run on *)

MaxDefs == 2     \* longest definitions list
MaxCalls == 2    \* public calls made on one generator

Str == ZodString(NoMeta)

\* two schemas of different structure registered under the same name "User"
UserObject ==
    ZodObject(<< <<"id", Str>>,
                 <<"nick", ZodOptional(Str, NoMeta)>>,
                 <<"bio", ZodNullable(Str, NoMeta)>> >>,
              "strip", Named("User"))
UserString == ZodString(Named("User"))

\* a schema named "User" with a property that is itself named "User"
UserNested ==
    ZodObject(<< <<"self", UserString>> >>, "strip",
              Meta("User", Undefined, "a user"))

\* an unnamed object that uses the named schema
Team == ZodObject(<< <<"owner", UserObject>> >>, "passthrough", NoMeta)

\* a schema whose name is also a key of Object.prototype
Ctor == ZodString(Named("constructor"))

IdParam == ZodString(Meta("id", Undefined, "the id"))

SchemaDefinition(schema) == [type |-> "schema", schema |-> schema]
ParameterDefinition(location, schema) ==
    [type |-> "parameter", location |-> location, schema |-> schema]
RouteDefinition(method, path, description, request, response) ==
    [type |-> "route",
     route |-> [method |-> method, path |-> path, description |-> description,
                summary |-> Undefined, request |-> request,
                response |-> response]]
Request(params, query, headers, body) ==
    [params |-> params, query |-> query, headers |-> headers, body |-> body]

Definitions ==
    { SchemaDefinition(UserObject),
      SchemaDefinition(UserNested),
      SchemaDefinition(Team),
      ParameterDefinition("query", IdParam),
      ParameterDefinition("path", Str),
      RouteDefinition("get", "/users", "list",
          Request(NoSchema, ZodObject(<< <<"id", Str>> >>, "strip", NoMeta),
                  << >>, NoSchema),
          UserObject),
      RouteDefinition("post", "/users", Undefined,
          Request(NoSchema, NoSchema, <<IdParam>>, UserString), Team),
      RouteDefinition("get", "/users", "constructor", NoRequest, Ctor),
      RouteDefinition("get", "/ping", Undefined,
          Request(NoSchema, NoSchema, <<Str>>, NoSchema), Str),
      RouteDefinition("get", "/ping", "ping", NoRequest, Str) }

RECURSIVE SeqsUpTo(_, _)
\* the sequences over S of length at most n
SeqsUpTo(S, n) ==
    IF n = 0 THEN {<< >>}
    ELSE LET shorter == SeqsUpTo(S, n - 1)
         IN shorter \cup {Append(q, x) : q \in shorter, x \in S}

-----------------------------------------------------------------------------
(* The generator as a state machine *)

\* the generator object as the private methods see it
This ==
    [schemaRefs |-> schemaRefs, paramRefs |-> paramRefs, pathRefs |-> pathRefs,
     writes |-> << >>]

\* the config object, when one was given
ConfigObject == ("openapi" := "3.0.0") ++ ("info" := "info")

Components ==
    ("components" := (("schemas" := schemaRefs) ++ ("parameters" := paramRefs)))

\* what generateDocs returns: { ...this.config, components, paths }
Document == ConfigObject ++ Components ++ ("paths" := pathRefs)

Unused ==
    /\ checks = << >>
    /\ numberResult = NoValue
    /\ node = NoSchema
    /\ mapped = NoValue
    /\ alternatives = NoValue

Init ==
    /\ definitions \in SeqsUpTo(Definitions, MaxDefs)
    /\ config \in BOOLEAN
    /\ schemaRefs = Empty
    /\ paramRefs = Empty
    /\ pathRefs = Empty
    /\ call = "none"
    /\ idx = 1
    /\ ret = NoValue
    /\ outcome = "none"
    /\ results = << >>
    /\ ncalls = 0
    /\ steps = << >>
    /\ before = This
    /\ writes = << >>
    /\ routeLog = << >>
    /\ Unused

\* generateDocs(), up to the forEach: throws when there is no config
generateDocs ==
    /\ call = "none"
    /\ ncalls < MaxCalls
    /\ ncalls' = ncalls + 1
    /\ steps' = << >>
    /\ idx' = 1
    /\ IF config
       THEN /\ call' = "generateDocs"
            /\ UNCHANGED <<outcome, results>>
       ELSE /\ call' = "none"
            /\ outcome' = "thrown"
            /\ results' = Append(results, [method |-> "generateDocs",
                                           threw |-> TRUE, doc |-> NoValue])
    /\ UNCHANGED <<definitions, config, schemaRefs, paramRefs, pathRefs, ret,
                   before, writes, routeLog, checks, numberResult, node, mapped, alternatives>>

\* generateComponents(), up to the forEach
generateComponents ==
    /\ call = "none"
    /\ ncalls < MaxCalls
    /\ ncalls' = ncalls + 1
    /\ steps' = << >>
    /\ idx' = 1
    /\ call' = "generateComponents"
    /\ UNCHANGED <<definitions, config, schemaRefs, paramRefs, pathRefs, ret,
                   outcome, results, before, writes, routeLog, checks,
                   numberResult, node, mapped, alternatives>>

\* a forEach that swallows the throw and goes on to the next definition
forEachContinues ==
    /\ idx' = idx + 1
    /\ UNCHANGED <<call, outcome, results>>

\* What a throw of generateSingle does to the forEach and to the call.
forEachThrown ==
    /\ call' = "none"
    /\ outcome' = "thrown"
    /\ results' = Append(results, [method |-> call, threw |-> TRUE,
                                   doc |-> NoValue])
    /\ UNCHANGED idx

\* One turn of this.definitions.forEach((definition) =>
\* this.generateSingle(definition)); a throw ends the call.
forEachDefinition ==
    /\ call # "none"
    /\ idx <= Len(definitions)
    /\ LET r == generateSingle(definitions[idx], This)
       IN /\ schemaRefs' = r.this.schemaRefs
          /\ paramRefs' = r.this.paramRefs
          /\ pathRefs' = r.this.pathRefs
          /\ writes' = r.this.writes
          /\ before' = This
          /\ ret' = r.res
          /\ steps' = Append(steps, [i |-> idx, threw |-> r.threw])
          /\ routeLog' = IF definitions[idx].type = "route" /\ ~r.threw
                         THEN Append(routeLog,
                                     [path |-> definitions[idx].route.path,
                                      method |-> definitions[idx].route.method,
                                      doc |-> r.res])
                         ELSE routeLog
          /\ IF r.threw
             THEN forEachThrown
             ELSE /\ idx' = idx + 1
                  /\ UNCHANGED <<call, outcome, results>>
    /\ UNCHANGED <<definitions, config, ncalls, checks, numberResult, node, mapped, alternatives>>

\* the return statement of generateDocs / generateComponents
returnDocument ==
    /\ call # "none"
    /\ idx > Len(definitions)
    /\ results' = Append(results,
                    [method |-> call, threw |-> FALSE,
                     doc |-> IF call = "generateDocs" THEN Document ELSE Components])
    /\ call' = "none"
    /\ outcome' = "returned"
    /\ UNCHANGED <<definitions, config, schemaRefs, paramRefs, pathRefs, idx, ret,
                   ncalls, steps, before, writes, routeLog, checks, numberResult,
                   node, mapped, alternatives>>

Next == generateDocs \/ generateComponents \/ forEachDefinition \/ returnDocument

Spec == Init /\ [][Next]_vars

-----------------------------------------------------------------------------
(* Properties of the generator (specification Spec) *)

\* the definition the last forEach turn processed
LastDefinition == definitions[steps[Len(steps)].i]
LastThrew == steps[Len(steps)].threw

\* Schemas of every kind and structure that resolve to the name "User": by
\* their own metadata, by the metadata of what they wrap, or by the metadata
\* of a wrapper.
SchemasNamedUser ==
    { UserObject, UserString, UserNested,
      ZodOptional(UserObject, NoMeta),
      ZodNullable(ZodOptional(UserString, NoMeta), NoMeta),
      ZodNullable(Str, Named("User")),
      ZodArray(Team, << >>, << >>, Named("User")),
      ZodUnion(<<Str, UserString>>, Named("User")),
      ZodIntersection(Team, UserObject, Meta("User", "object", Undefined)),
      ZodOther(FALSE, FALSE, Named("User")) }

\* C1 (reference stability): whenever the name a schema resolves to is a key
\* of the schema registry, generateSingleSchema returns exactly the $ref to
\* that name, for every saveIfNew and withMetaData and every kind of schema,
\* and leaves the generator as it was (nothing is expanded or stored).
ReferenceStability ==
    \A schema \in SchemasNamedUser, saveIfNew \in BOOLEAN, withMetaData \in BOOLEAN :
        "User" \in DOMAIN schemaRefs =>
            generateSingleSchema(schema, saveIfNew, withMetaData, This)
                = Returned(SchemaRef("User"), This)

\* C1 witness: a schema definition named "User" was processed after "User"
\* was registered with another structure, and a $ref came back.
ReferenceReturned ==
    /\ steps # << >>
    /\ LastDefinition.type = "schema"
    /\ ret = SchemaRef("User")
    /\ "User" \in DOMAIN schemaRefs
    /\ generateSingleSchema(LastDefinition.schema, FALSE, TRUE,
                            [This EXCEPT !.schemaRefs = Empty]).res
          # schemaRefs["User"]

\* C2 (first occurrence wins), as claimed: a value stored under a name in the
\* schema registry or in the parameter registry is never replaced: no
\* generateSingle assigns to a name that already had a value, neither one
\* stored by an earlier definition nor one stored earlier in the same mapping
\* (a nested schema carrying the same name).
FirstOccurrenceWins ==
    /\ \A name \in DOMAIN before.schemaRefs :
          name \in DOMAIN schemaRefs /\ schemaRefs[name] = before.schemaRefs[name]
    /\ \A name \in DOMAIN before.paramRefs :
          name \in DOMAIN paramRefs /\ paramRefs[name] = before.paramRefs[name]
    /\ \A i \in DOMAIN writes :
          /\ writes[i][1] \notin DOMAIN before.schemaRefs
          /\ \A j \in DOMAIN writes : i < j => writes[j][1] # writes[i][1]

\* C3 (idempotence), as claimed: two calls of the same public method on one
\* generator return deep-equal documents.
GenerationIdempotent ==
    \A i \in DOMAIN results, j \in DOMAIN results :
        (results[i].method = results[j].method
            /\ ~results[i].threw /\ ~results[j].threw)
        => results[i].doc = results[j].doc

\* the index of the last routeDoc built for a path and method
LastBuilt(path, method) ==
    CHOOSE i \in DOMAIN routeLog :
        /\ routeLog[i].path = path /\ routeLog[i].method = method
        /\ \A j \in DOMAIN routeLog :
              (routeLog[j].path = path /\ routeLog[j].method = method) => j <= i

\* C7 (routes are merged by method): for every route processed, paths[p][m]
\* exists and is the operation built from the last route processed for that
\* path and method, whose 200 response wraps the response schema mapped
\* without registration; processing a route leaves every other paths[p'][m']
\* and both registries as they were.
RoutesMergedByMethod ==
    /\ \A i \in DOMAIN routeLog :
          LET path == routeLog[i].path
              method == routeLog[i].method
          IN /\ path \in DOMAIN pathRefs
             /\ method \in DOMAIN pathRefs[path]
             /\ pathRefs[path][method]
                   = routeLog[LastBuilt(path, method)].doc[method]
    /\ (steps # << >> /\ LastDefinition.type = "route" /\ ~LastThrew) =>
          LET route == LastDefinition.route
          IN /\ schemaRefs = before.schemaRefs
             /\ paramRefs = before.paramRefs
             /\ pathRefs[route.path][route.method]["responses"]["200"]
                        ["content"]["application/json"]["schema"]
                   = generateSingleSchema(route.response, FALSE, TRUE, before).res
             /\ \A path \in DOMAIN before.pathRefs :
                   \A method \in DOMAIN before.pathRefs[path] :
                       <<path, method>> # <<route.path, route.method>> =>
                           /\ path \in DOMAIN pathRefs
                           /\ method \in DOMAIN pathRefs[path]
                           /\ pathRefs[path][method] = before.pathRefs[path][method]

\* C7 witness: a route was just merged into a path that already had another
\* method, after an earlier route for its own path and method.
RouteMergedAndOverridden ==
    /\ steps # << >>
    /\ LastDefinition.type = "route"
    /\ ~LastThrew
    /\ Cardinality(DOMAIN pathRefs[LastDefinition.route.path]) >= 2
    /\ Cardinality({i \in DOMAIN routeLog :
                      /\ routeLog[i].path = LastDefinition.route.path
                      /\ routeLog[i].method = LastDefinition.route.method}) >= 2

\* Schemas that resolve to no name, to be mapped as parameters.
SchemasUnnamed ==
    { Str, ZodOptional(Str, NoMeta), ZodNullable(Str, NoMeta), Team,
      ZodString(Meta(Undefined, "string", "no name")),
      ZodString(Named("")) }

\* C9 (a missing name aborts the build): generateSingleParameter throws when
\* neither an externalName nor a metadata name is available; when a
\* definition throws, the forEach stops at it (nothing after it is
\* processed), the call ends thrown with no document, and a failing route
\* has added nothing to paths.
MissingNameAborts ==
    /\ \A schema \in SchemasUnnamed, saveIfNew \in BOOLEAN :
          generateSingleParameter(schema, "path", saveIfNew, Undefined, This)
              = Thrown(This)
    /\ \A k \in DOMAIN steps :
          /\ steps[k].i = k
          /\ steps[k].threw =>
                /\ k = Len(steps)
                /\ call = "none"
                /\ outcome = "thrown"
                /\ results[Len(results)].threw
                /\ results[Len(results)].doc = NoValue
                /\ pathRefs = before.pathRefs
    /\ Len(results) = ncalls - (IF call = "none" THEN 0 ELSE 1)

\* C9 witness: a route with an unnamed header parameter threw while a
\* definition after it was still to be processed.
RouteAborted ==
    /\ steps # << >>
    /\ LastThrew
    /\ LastDefinition.type = "route"
    /\ Len(steps) < Len(definitions)
    /\ outcome = "thrown"

RECURSIVE RefsOfSchema(_)
\* every $ref of a schema fragment
RefsOfSchema(fragment) ==
    IF "$ref" \in DOMAIN fragment THEN {fragment["$ref"]}
    ELSE UNION (
        {RefsOfSchema(fragment["properties"][k]) :
            k \in IF "properties" \in DOMAIN fragment
                  THEN DOMAIN fragment["properties"] ELSE {}}
        \cup {RefsOfSchema(fragment["items"]) :
                 k \in IF "items" \in DOMAIN fragment THEN {1} ELSE {}}
        \cup {RefsOfSchema(fragment["anyOf"][k]) :
                 k \in IF "anyOf" \in DOMAIN fragment
                       THEN DOMAIN fragment["anyOf"] ELSE {}}
        \cup {RefsOfSchema(fragment["allOf"][k]) :
                 k \in IF "allOf" \in DOMAIN fragment
                       THEN DOMAIN fragment["allOf"] ELSE {}})

\* every $ref of a parameter object (or the reference it is)
RefsOfParameter(parameter) ==
    IF "$ref" \in DOMAIN parameter THEN {parameter["$ref"]}
    ELSE RefsOfSchema(parameter["schema"])

\* every $ref of an operation object
RefsOfOperation(operation) ==
    UNION {RefsOfParameter(operation["parameters"][k]) :
              k \in DOMAIN operation["parameters"]}
    \cup (IF "requestBody" \in DOMAIN operation
          THEN RefsOfSchema(operation["requestBody"]["content"]
                                     ["application/json"]["schema"])
          ELSE {})
    \cup RefsOfSchema(operation["responses"]["200"]["content"]
                               ["application/json"]["schema"])

\* every $ref of a returned document
RefsOfDocument(doc) ==
    UNION {RefsOfSchema(doc["components"]["schemas"][k]) :
              k \in DOMAIN doc["components"]["schemas"]}
    \cup UNION {RefsOfParameter(doc["components"]["parameters"][k]) :
                   k \in DOMAIN doc["components"]["parameters"]}
    \cup (IF "paths" \in DOMAIN doc
          THEN UNION {UNION {RefsOfOperation(doc["paths"][path][method]) :
                                method \in DOMAIN doc["paths"][path]} :
                         path \in DOMAIN doc["paths"]}
          ELSE {})

\* C10 (no dangling references), as claimed: every $ref anywhere in a
\* returned document names a key of components.schemas, respectively of
\* components.parameters, and no registry value is itself a bare reference.
NoDanglingReferences ==
    \A i \in DOMAIN results :
        ~results[i].threw =>
            LET doc == results[i].doc
            IN /\ \A ref \in RefsOfDocument(doc) :
                     \/ /\ ref[1] = "#/components/schemas/"
                        /\ ref[2] \in DOMAIN doc["components"]["schemas"]
                     \/ /\ ref[1] = "#/components/parameters/"
                        /\ ref[2] \in DOMAIN doc["components"]["parameters"]
               /\ \A k \in DOMAIN doc["components"]["schemas"] :
                     "$ref" \notin DOMAIN doc["components"]["schemas"][k]
               /\ \A k \in DOMAIN doc["components"]["parameters"] :
                     "$ref" \notin DOMAIN doc["components"]["parameters"][k]

-----------------------------------------------------------------------------
(* The type mapper on its own (specification SpecMapper): one schema is      *)
(* mapped by a generator whose registry is empty or already holds "Pet".     *)

MaxProps == 2    \* most properties of an object schema

Bool == ZodBoolean(NoMeta)
Pet == ZodString(Named("Pet"))
Union2(x, y) == ZodUnion(<<x, y>>, NoMeta)
Intersection2(x, y) == ZodIntersection(x, y, NoMeta)

Members == {Str, Bool, Pet}

UnionSchemas ==
    {Union2(x, y) : x \in Members \cup {ZodNullable(Str, NoMeta)}, y \in Members}
    \cup {Union2(Union2(x, y), z) : x \in {Str}, y \in Members, z \in Members}
    \cup {Union2(x, Union2(y, Union2(z, Str))) :
             x \in {Bool}, y \in Members, z \in Members}
    \cup {Union2(w, z) :
             w \in { ZodOptional(Union2(Str, Bool), NoMeta),
                     ZodNullable(Union2(Str, Pet), NoMeta),
                     ZodUnion(<<Str, Bool>>, Named("Pet")),
                     ZodNullable(ZodUnion(<<Str, Bool>>, Named("Pet")), NoMeta) },
             z \in {Bool, Union2(Pet, Str)}}
    \cup {ZodNullable(Union2(x, y), m) :
             x \in Members, y \in Members,
             m \in {NoMeta, Meta(Undefined, Undefined, "either")}}
    \cup {ZodOptional(ZodNullable(Union2(Str, Bool), NoMeta), NoMeta)}

IntersectionSchemas ==
    {Intersection2(x, Intersection2(y, z)) : x \in {Str}, y \in Members, z \in Members}
    \cup {Intersection2(Intersection2(x, y), z) :
             x \in Members, y \in Members, z \in {Bool}}
    \cup {Intersection2(w, z) :
             w \in { ZodOptional(Intersection2(Str, Bool), NoMeta),
                     ZodIntersection(Str, Bool, Named("Pet")) },
             z \in {Bool, Intersection2(Pet, Str)}}

PropertySchemas ==
    { Str, ZodOptional(Str, NoMeta), ZodNullable(Str, NoMeta),
      ZodNullable(ZodOptional(Str, NoMeta), NoMeta),
      ZodOptional(ZodNullable(Str, NoMeta), NoMeta),
      ZodNullable(Pet, NoMeta), ZodOptional(Pet, NoMeta),
      Union2(Str, ZodOptional(Bool, NoMeta)) }

PropertyKeys == <<"a", "b", "c", "d">>

ObjectSchemas ==
    {ZodObject([i \in DOMAIN types |-> <<PropertyKeys[i], types[i]>>],
               unknownKeys, NoMeta) :
        types \in SeqsUpTo(PropertySchemas, MaxProps),
        unknownKeys \in {"strip", "passthrough"}}

MapperInputs == UnionSchemas \cup IntersectionSchemas \cup ObjectSchemas

\* schemaRefs after a schema definition of Pet was processed
PetRegistered == "Pet" := ("type" := "string")

MapperInit ==
    /\ node \in MapperInputs
    /\ schemaRefs \in {Empty, PetRegistered}
    /\ mapped = NoValue
    /\ alternatives = NoValue
    /\ definitions = << >>
    /\ config = TRUE
    /\ paramRefs = Empty
    /\ pathRefs = Empty
    /\ call = "none"
    /\ idx = 1
    /\ ret = NoValue
    /\ outcome = "none"
    /\ results = << >>
    /\ ncalls = 0
    /\ steps = << >>
    /\ before = This
    /\ writes = << >>
    /\ routeLog = << >>
    /\ checks = << >>
    /\ numberResult = NoValue

\* this.generateSingleSchema(node, saveIfNew)
mapSchema ==
    /\ mapped = NoValue
    /\ \E saveIfNew \in BOOLEAN :
          LET r == generateSingleSchema(node, saveIfNew, TRUE, This)
          IN /\ mapped' = [res |-> r.res, threw |-> r.threw,
                           saveIfNew |-> saveIfNew]
             /\ schemaRefs' = r.this.schemaRefs
             /\ writes' = r.this.writes
             /\ before' = This
    /\ UNCHANGED <<definitions, config, paramRefs, pathRefs, call, idx, ret,
                   outcome, results, ncalls, steps, routeLog, checks,
                   numberResult, node, alternatives>>

\* mapNullableOfArray(objects, isNullable) applied to the alternatives of a
\* mapped union, isNullable being the nullability of the mapped schema
mapNullableAlternatives ==
    /\ mapped # NoValue
    /\ alternatives = NoValue
    /\ ~mapped.threw
    /\ "anyOf" \in DOMAIN mapped.res
    /\ alternatives' = mapNullableOfArray(mapped.res["anyOf"], isNullable(node))
    /\ UNCHANGED <<definitions, config, schemaRefs, paramRefs, pathRefs, call,
                   idx, ret, outcome, results, ncalls, steps, before, writes,
                   routeLog, checks, numberResult, node, mapped>>

MapperNext == mapSchema \/ mapNullableAlternatives

SpecMapper == MapperInit /\ [][MapperNext]_vars

-----------------------------------------------------------------------------
(* getNumberChecks on its own (specification SpecChecks) *)

MaxChecks == 2   \* longest list of checks

\* the checks of a ZodNumber: range checks and one of another kind ("int")
NumericChecks ==
    [kind : {"min", "max"}, inclusive : BOOLEAN,
     value : {[bigint |-> FALSE, n |-> 0], [bigint |-> FALSE, n |-> 10],
              [bigint |-> TRUE, n |-> 5]}]
    \cup {[kind |-> "int", inclusive |-> TRUE, value |-> [bigint |-> FALSE, n |-> 0]]}

ChecksInit ==
    /\ checks \in SeqsUpTo(NumericChecks, MaxChecks)
    /\ numberResult = NoValue
    /\ node = NoSchema
    /\ mapped = NoValue
    /\ alternatives = NoValue
    /\ definitions = << >>
    /\ config = TRUE
    /\ schemaRefs = Empty
    /\ paramRefs = Empty
    /\ pathRefs = Empty
    /\ call = "none"
    /\ idx = 1
    /\ ret = NoValue
    /\ outcome = "none"
    /\ results = << >>
    /\ ncalls = 0
    /\ steps = << >>
    /\ before = This
    /\ writes = << >>
    /\ routeLog = << >>

\* versionSpecifics.getNumberChecks(checks)
callGetNumberChecks ==
    /\ numberResult = NoValue
    /\ numberResult' = getNumberChecks(checks)
    /\ UNCHANGED <<definitions, config, schemaRefs, paramRefs, pathRefs, call,
                   idx, ret, outcome, results, ncalls, steps, before, writes,
                   routeLog, checks, node, mapped, alternatives>>

ChecksNext == callGetNumberChecks

SpecChecks == ChecksInit /\ [][ChecksNext]_vars

-----------------------------------------------------------------------------
(* Properties of the type mapper (specification SpecMapper) *)

\* the schema whose structure is inspected
Inner == unwrapOptional(node)

\* a fragment (not a $ref, not a throw) came back for `node`
Expanded == mapped # NoValue /\ ~mapped.threw /\ "$ref" \notin DOMAIN mapped.res

\* node is nullable(A | B) with neither A nor B a union
NullableUnionOfTwo ==
    /\ node.kind = "ZodNullable"
    /\ node.inner.kind = "ZodUnion"
    /\ \A i \in DOMAIN node.inner.options : node.inner.options[i].kind # "ZodUnion"

\* [map(A), map(B)]: the members mapped in order by the generator as it was
MappedMembers == mapSchemas(node.inner.options, mapped.saveIfNew, before).res

\* C4 (nullable union, 3.0): nullable(A | B) maps to a fragment whose anyOf
\* is exactly [map(A), map(B)] and which carries nullable: true at its top
\* level.
NullableUnionFlattened ==
    (NullableUnionOfTwo /\ Expanded) =>
        /\ mapped.res["anyOf"] = MappedMembers
        /\ "nullable" \in DOMAIN mapped.res
        /\ mapped.res["nullable"] = TRUE

\* the members of a union, or the two sides of an intersection
MembersOf(schema) ==
    IF schema.kind = "ZodUnion" THEN schema.options
    ELSE <<schema.left, schema.right>>

RECURSIVE DirectLeaves(_, _)
\* The pre-order, left-to-right list of the alternatives of a union (kind
\* "ZodUnion") or intersection (kind "ZodIntersection"), a member being
\* expanded exactly when it is itself a node of that kind.
DirectLeaves(schema, kind) ==
    IF schema.kind # kind THEN <<schema>>
    ELSE LET members == MembersOf(schema)
             RECURSIVE Join(_)
             Join(i) == IF i > Len(members) THEN << >>
                        ELSE DirectLeaves(members[i], kind) \o Join(i + 1)
         IN Join(1)

\* the composition key of a kind
ListKey(kind) == IF kind = "ZodUnion" THEN "anyOf" ELSE "allOf"

Range(seq) == {seq[i] : i \in DOMAIN seq}

\* C8 (required fields): the required list of an object schema holds exactly
\* the keys of the properties that are not optional, each once, in
\* declaration order; a property that is only nullable stays required, and a
\* property emitted as a $ref is required like any other.
RequiredFields ==
    (Expanded /\ Inner.kind = "ZodObject") =>
        LET shape == Inner.shape
            required == mapped.res["required"]
            kept == {i \in DOMAIN shape : ~isOptional(shape[i][2])}
        IN /\ Len(required) = Cardinality(kept)
           /\ \A i \in kept :
                 required[Cardinality({j \in kept : j <= i})] = shape[i][1]
           /\ \A i \in DOMAIN shape :
                 /\ (shape[i][2].kind = "ZodNullable"
                        /\ shape[i][2].inner.kind = "ZodString")
                    => shape[i][1] \in Range(required)
                 /\ shape[i][2].kind = "ZodOptional"
                    => shape[i][1] \notin Range(required)
                 /\ "$ref" \in DOMAIN mapped.res["properties"][shape[i][1]]
                    => (shape[i][1] \in Range(required)
                           <=> shape[i][2].kind # "ZodOptional")

\* C8 witness: an object was mapped whose nullable property, emitted as a
\* $ref, is required and whose optional property is not.
RequiredComputed ==
    /\ Expanded
    /\ Inner.kind = "ZodObject"
    /\ Len(Inner.shape) = 2
    /\ Inner.shape[1][2].kind = "ZodNullable"
    /\ "$ref" \in DOMAIN mapped.res["properties"]["a"]
    /\ Inner.shape[2][2].kind = "ZodOptional"
    /\ mapped.res["required"] = <<"a">>

-----------------------------------------------------------------------------
(* Properties of getNumberChecks (specification SpecChecks) *)

\* the indexes of the checks of a kind
ChecksOfKind(kind) == {i \in DOMAIN checks : checks[i].kind = kind}

\* the last check of a kind (there is one)
LastCheck(kind) ==
    checks[CHOOSE i \in ChecksOfKind(kind) : \A j \in ChecksOfKind(kind) : j <= i]

\* the bound and the exclusive flag are those of the last check of the kind
LastCheckDecides(kind, bound, exclusive) ==
    IF ChecksOfKind(kind) = {}
    THEN bound \notin DOMAIN numberResult /\ exclusive \notin DOMAIN numberResult
    ELSE /\ bound \in DOMAIN numberResult
         /\ numberResult[bound] = LastCheck(kind).value.n
         /\ exclusive \in DOMAIN numberResult <=> ~LastCheck(kind).inclusive
         /\ exclusive \in DOMAIN numberResult => numberResult[exclusive] = TRUE

\* C5 (numeric bounds, 3.0), as claimed: minimum is the value of the last
\* min check and exclusiveMinimum is present, with value true, exactly when
\* that check is exclusive; likewise maximum and exclusiveMaximum.
LastRangeCheckWins ==
    numberResult # NoValue =>
        /\ LastCheckDecides("min", "minimum", "exclusiveMinimum")
        /\ LastCheckDecides("max", "maximum", "exclusiveMaximum")
====
